---- MODULE Spec2Model ----
(***************************************************************************)
(* Model of feed-worker (src/src/index.ts): the watermark diff engine      *)
(* (diffItems), the subscription store with its per-guild index, the       *)
(* interaction handlers (subscribe / list / unsubscribe) and the scheduled *)
(* feed sweep (runFeedChecks / processSubscription).                       *)
(***************************************************************************)
EXTENDS Integers, Sequences, FiniteSets, TLC

(***************************************************************************)
(* Bounds of the model.                                                    *)
(***************************************************************************)
MaxItems == 3       \* longest item list handed to diffItems in SpecDiff
MaxDate == 2        \* item dates (epoch ms) range over 0..MaxDate
MaxFeedLen == 2     \* longest feed a scheduled fetch returns
MaxSubs == 2        \* subscriptions ever created (ulid() never repeats)
MaxErr == 1         \* errorCount is capped here by the failure guards

(***************************************************************************)
(* JavaScript values.  `undefined` is a value of its own for each type;    *)
(* the empty string and the number 0 are falsy like undefined.             *)
(***************************************************************************)
NoId == "<undefined>"
NoDate == -1
ItemIds == {"", "a", "b"}
ItemDates == 0..MaxDate
Items == [id : ItemIds, date : ItemDates \cup {NoDate}]
NoItem == [id |-> NoId, date |-> NoDate]

TruthyId(id) == id # NoId /\ id # ""
TruthyDate(d) == d # NoDate /\ d # 0

SeqsUpTo(S, n) == UNION {[1..k -> S] : k \in 0..n}

(***************************************************************************)
(* Array.prototype.sort with comparator (a.date ?? 0) - (b.date ?? 0).     *)
(* The sort is stable: equal keys keep their source order.                 *)
(***************************************************************************)
DateKey(item) == IF item.date = NoDate THEN 0 ELSE item.date

RECURSIVE InsertByDate(_, _)
InsertByDate(sorted, item) ==
    IF sorted = <<>> THEN <<item>>
    ELSE IF DateKey(sorted[Len(sorted)]) <= DateKey(item)
         THEN Append(sorted, item)
         ELSE Append(InsertByDate(SubSeq(sorted, 1, Len(sorted) - 1), item),
                     sorted[Len(sorted)])

RECURSIVE SortByDate(_)
SortByDate(items) ==
    IF items = <<>> THEN <<>>
    ELSE InsertByDate(SortByDate(SubSeq(items, 1, Len(items) - 1)),
                      items[Len(items)])

\* sorted.findIndex((item) => item.id === lastId); 0 stands for JS -1
findIndex(sorted, lastId) ==
    IF \E i \in 1..Len(sorted) : sorted[i].id = lastId
    THEN CHOOSE i \in 1..Len(sorted) :
            /\ sorted[i].id = lastId
            /\ \A j \in 1..(i - 1) : sorted[j].id # lastId
    ELSE 0

orderItems(items) ==
    IF \E i \in 1..Len(items) : items[i].date # NoDate
    THEN SortByDate(items)
    ELSE items

laterThan_orEqual(item, lastDate) ==
    TruthyDate(item.date) /\ item.date >= lastDate

laterThan(item, lastDate) == TruthyDate(item.date) /\ item.date > lastDate

diffItems_noFirstCheck(items, lastId, lastDate) ==
    IF Len(items) = 0 THEN [newItems |-> <<>>, latestItem |-> NoItem]
    ELSE LET sorted == orderItems(items)
             latestItem == sorted[Len(sorted)]
             index == IF TruthyId(lastId) THEN findIndex(sorted, lastId) ELSE 0
             byId == IF index >= 1
                     THEN SubSeq(sorted, index + 1, Len(sorted)) ELSE <<>>
             byDate == IF Len(byId) = 0 /\ TruthyDate(lastDate)
                       THEN SelectSeq(sorted, LAMBDA it : laterThan(it, lastDate))
                       ELSE byId
             newItems == IF Len(byDate) = 0 /\ latestItem.id # lastId
                         THEN <<latestItem>> ELSE byDate
         IN [newItems |-> newItems, latestItem |-> latestItem]

diffItems(items, lastId, lastDate) ==
    IF Len(items) = 0 THEN [newItems |-> <<>>, latestItem |-> NoItem]
    ELSE LET sorted == orderItems(items)
             latestItem == sorted[Len(sorted)]
         IN IF ~TruthyId(lastId) /\ ~TruthyDate(lastDate)
            THEN [newItems |-> <<>>, latestItem |-> latestItem]
            ELSE LET index == IF TruthyId(lastId)
                              THEN findIndex(sorted, lastId) ELSE 0
                     byId == IF index >= 1
                             THEN SubSeq(sorted, index + 1, Len(sorted))
                             ELSE <<>>
                     byDate == IF Len(byId) = 0 /\ TruthyDate(lastDate)
                               THEN SelectSeq(sorted,
                                        LAMBDA it : laterThan(it, lastDate))
                               ELSE byId
                     newItems == IF Len(byDate) = 0 /\ latestItem.id # lastId
                                 THEN <<latestItem>> ELSE byDate
                 IN [newItems |-> newItems, latestItem |-> latestItem]

(***************************************************************************)
(* normalizeFeedTitle: strings are sequences of characters; undefined is   *)
(* NoTitle.  Whitespace runs collapse to one space, the result is trimmed, *)
(* an empty result is undefined, a long one is cut with an ellipsis.       *)
(***************************************************************************)
TitleLimit == 200
TitleKeep == 197
NoTitle == <<"<undefined>">>
RawTitles == {NoTitle, <<" ">>, <<" ", "a">>}

RECURSIVE collapseSpaces(_)
collapseSpaces(t) ==
    IF Len(t) <= 1 THEN t
    ELSE IF t[1] = " " /\ t[2] = " " THEN collapseSpaces(Tail(t))
         ELSE <<t[1]>> \o collapseSpaces(Tail(t))

trim(t) ==
    LET a == IF Len(t) > 0 /\ t[1] = " " THEN Tail(t) ELSE t
    IN IF Len(a) > 0 /\ a[Len(a)] = " " THEN SubSeq(a, 1, Len(a) - 1) ELSE a

normalizeFeedTitle(value) ==
    IF value = NoTitle \/ value = <<>> THEN NoTitle
    ELSE LET trimmed == trim(collapseSpaces(value))
         IN IF trimmed = <<>> THEN NoTitle
            ELSE IF Len(trimmed) > TitleLimit
                 THEN SubSeq(trimmed, 1, TitleKeep) \o <<".", ".", ".">>
                 ELSE trimmed

(***************************************************************************)
(* The key-value store: subscription records under sub:g:<guild>:<id> and  *)
(* one index record per guild under subindex:g:<guild>.                    *)
(***************************************************************************)
Guilds == {1, 2}
Channels == {"c1"}
Urls == {"u1"}
SubIds == 1..MaxSubs
Keys == Guilds \X SubIds
NoRec == [id |-> 0]
NoError == "<undefined>"
NoIndex == [present |-> FALSE, ids |-> <<>>]

subscriptionKey_ignoresGuild(guildId, subId) == <<1, subId>>

\* `sub:g:${guildId}:${subId}`; a guild id is a snowflake and has no colon
subscriptionKey(guildId, subId) == <<guildId, subId>>

newSubscription(id, guildId, channelId, url, title) ==
    [id |-> id, guildId |-> guildId, channelId |-> channelId, url |-> url,
     lastItemId |-> NoId, lastItemDate |-> NoDate,
     feedTitle |-> normalizeFeedTitle(title),
     errorCount |-> 0, lastError |-> NoError]

\* kv.list returns key names in lexicographic order: by guild, then by id
AllKeysSeq ==
    [n \in 1..(Cardinality(Guilds) * MaxSubs) |->
        <<((n - 1) \div MaxSubs) + 1, ((n - 1) % MaxSubs) + 1>>]

listAllKeys(st, prefix) ==
    SelectSeq(AllKeysSeq, LAMBDA k : st[k] # NoRec /\ k[1] \in prefix)

RECURSIVE getAll(_, _)
getAll(st, keys) ==
    IF keys = <<>> THEN <<>>
    ELSE IF st[Head(keys)] = NoRec THEN getAll(st, Tail(keys))
         ELSE <<st[Head(keys)]>> \o getAll(st, Tail(keys))

listSubscriptionsByGuild(st, guildId) ==
    getAll(st, listAllKeys(st, {guildId}))

idsOf(subs) == [i \in 1..Len(subs) |-> subs[i].id]
Range(f) == {f[i] : i \in DOMAIN f}

getSubscriptionsForGuild_keepsIndex(st, idx, guildId) ==
    IF idx[guildId].present /\ Len(idx[guildId].ids) > 0
    THEN LET ids == idx[guildId].ids
             valid == getAll(st, [i \in 1..Len(ids) |->
                                     subscriptionKey(guildId, ids[i])])
         IN [subs |-> valid, index |-> idx[guildId], wrote |-> FALSE]
    ELSE LET fallback == listSubscriptionsByGuild(st, guildId)
         IN [subs |-> fallback,
             index |-> IF Len(fallback) > 0
                       THEN [present |-> TRUE, ids |-> idsOf(fallback)]
                       ELSE idx[guildId],
             wrote |-> Len(fallback) > 0]

\* the subscriptions returned and the index record left behind
getSubscriptionsForGuild(st, idx, guildId) ==
    IF idx[guildId].present /\ Len(idx[guildId].ids) > 0
    THEN LET ids == idx[guildId].ids
             valid == getAll(st, [i \in 1..Len(ids) |->
                                     subscriptionKey(guildId, ids[i])])
         IN [subs |-> valid,
             index |-> IF Len(valid) # Len(ids)
                       THEN [present |-> TRUE, ids |-> idsOf(valid)]
                       ELSE idx[guildId],
             wrote |-> Len(valid) # Len(ids)]
    ELSE LET fallback == listSubscriptionsByGuild(st, guildId)
         IN [subs |-> fallback,
             index |-> IF Len(fallback) > 0
                       THEN [present |-> TRUE, ids |-> idsOf(fallback)]
                       ELSE idx[guildId],
             wrote |-> Len(fallback) > 0]

(***************************************************************************)
(* probeFeed: what the subscribe flow learns from one fetch of the URL.    *)
(***************************************************************************)
\* the items a fetched feed carries: an empty guid gives the id "", and a
\* pubDate is a time after the epoch or is missing
FeedItems == [id : ItemIds, date : (1..MaxDate) \cup {NoDate}]
\* "rss" stands for the recognised formats rss, atom and rdf: the callers of
\* parseFeed only compare the format against "unknown"
Formats == {"rss"}
FailedFetches == {[kind |-> "http_error"], [kind |-> "throw"]}
ParsedFeeds(len) ==
    [kind : {"feed"}, format : Formats, title : RawTitles,
     items : SeqsUpTo(FeedItems, len)]
        \cup {[kind |-> "feed", format |-> "unknown", title |-> NoTitle,
               items |-> <<>>]}
Responses(len) == FailedFetches \cup ParsedFeeds(len)

probeFeed_acceptsUnknown(resp) ==
    IF resp.kind # "feed" THEN [ok |-> FALSE, title |-> NoTitle]
    ELSE [ok |-> TRUE, title |-> resp.title]

probeFeed(resp) ==
    IF resp.kind # "feed" THEN [ok |-> FALSE, title |-> NoTitle]
    ELSE IF resp.format = "unknown" THEN [ok |-> FALSE, title |-> NoTitle]
         ELSE [ok |-> TRUE, title |-> resp.title]

VARIABLES store, index, nextId, deleted, h, sweep, arg, ret

vars == <<store, index, nextId, deleted, h, sweep, arg, ret>>

Procs == {1, 2}
Sweeps == {1, 2}
\* `done` is a record of the subscription the sweep handled last: how it
\* ended, whether it had no watermark, the newest item of the feed, and how
\* many of its new items were and were not sent
NoDone == [outcome |-> "none", first |-> FALSE, latest |-> NoItem,
           sent |-> 0, unsent |-> 0]
IdleSweep == [pc |-> "idle", active |-> <<>>, sub |-> NoRec,
              newItems |-> <<>>, sent |-> <<>>, done |-> NoDone]
IdleProc == [pc |-> "idle", op |-> "none", guildId |-> 1, channelId |-> "c1",
             url |-> "u1", subId |-> 0, idx |-> <<>>, listed |-> <<>>]

InitStore ==
    /\ store = [k \in Keys |-> NoRec]
    /\ index = [g \in Guilds |-> NoIndex]
    /\ nextId = 1
    /\ deleted = {}
    /\ h = [p \in Procs |-> IdleProc]
    /\ sweep = [c \in Sweeps |-> IdleSweep]

duplicateOf(existing, channelId, url) ==
    \E i \in 1..Len(existing) :
        existing[i].channelId = channelId /\ existing[i].url = url

\* handleSubscribe up to the duplicate check (lines 228-250)
SubscribeBegin(p, guildId, channelId, url) ==
    /\ h[p].pc = "idle"
    /\ nextId <= MaxSubs
    /\ LET r == getSubscriptionsForGuild(store, index, guildId)
       IN /\ index' = [index EXCEPT ![guildId] = r.index]
          /\ h' = [h EXCEPT ![p] =
                    [IdleProc EXCEPT
                        !.pc = IF duplicateOf(r.subs, channelId, url)
                               THEN "idle" ELSE "probe",
                        !.op = "subscribe", !.guildId = guildId,
                        !.channelId = channelId, !.url = url]]
    /\ UNCHANGED <<store, nextId, deleted, sweep, arg, ret>>

\* probe, then the record is written (lines 252-284)
SubscribeProbeWith(p, probe) ==
    /\ h[p].pc = "probe"
    /\ IF ~probe.ok
       THEN /\ h' = [h EXCEPT ![p].pc = "idle"]
            /\ UNCHANGED <<store, nextId>>
       ELSE /\ nextId <= MaxSubs
            /\ store' = [store EXCEPT
                    ![subscriptionKey(h[p].guildId, nextId)] =
                        newSubscription(nextId, h[p].guildId,
                                        h[p].channelId, h[p].url,
                                        probe.title)]
            /\ nextId' = nextId + 1
            /\ h' = [h EXCEPT ![p].pc = "add_read", ![p].subId = nextId]
    /\ UNCHANGED <<index, deleted, sweep, arg, ret>>

SubscribeProbe(p) ==
    /\ h[p].pc = "probe"
    /\ \E probe \in {probeFeed(resp) : resp \in Responses(1)} :
            SubscribeProbeWith(p, probe)

\* addToIndex: the read (line 808) and the conditional write (809-812)
AddToIndexRead_alwaysWrites(p) ==
    /\ h[p].pc = "add_read"
    /\ h' = [h EXCEPT ![p].idx = index[h[p].guildId].ids,
                      ![p].pc = "add_write"]
    /\ UNCHANGED <<store, index, nextId, deleted, sweep, arg, ret>>

AddToIndexRead(p) ==
    /\ h[p].pc = "add_read"
    /\ LET ids == index[h[p].guildId].ids
       IN h' = [h EXCEPT ![p].idx = ids,
                         ![p].pc = IF h[p].subId \in Range(ids)
                                   THEN "idle" ELSE "add_write"]
    /\ UNCHANGED <<store, index, nextId, deleted, sweep, arg, ret>>

AddToIndexWrite(p) ==
    /\ h[p].pc = "add_write"
    /\ index' = [index EXCEPT ![h[p].guildId] =
                    [present |-> TRUE, ids |-> Append(h[p].idx, h[p].subId)]]
    /\ h' = [h EXCEPT ![p].pc = "idle", ![p].idx = <<>>]
    /\ UNCHANGED <<store, nextId, deleted, sweep, arg, ret>>

\* handleUnsubscribe: the lookup (lines 351-362)
UnsubscribeBegin(p, guildId, subId) ==
    /\ h[p].pc = "idle"
    /\ h' = [h EXCEPT ![p] =
                [IdleProc EXCEPT
                    !.pc = IF store[subscriptionKey(guildId, subId)] = NoRec
                           THEN "idle" ELSE "delete",
                    !.op = "unsubscribe", !.guildId = guildId,
                    !.subId = subId]]
    /\ UNCHANGED <<store, index, nextId, deleted, sweep, arg, ret>>

\* the delete (line 364)
UnsubscribeDelete(p) ==
    /\ h[p].pc = "delete"
    /\ store' = [store EXCEPT
                    ![subscriptionKey(h[p].guildId, h[p].subId)] = NoRec]
    /\ deleted' = deleted \cup {subscriptionKey(h[p].guildId, h[p].subId)}
    /\ h' = [h EXCEPT ![p].pc = "rm_read"]
    /\ UNCHANGED <<index, nextId, sweep, arg, ret>>

\* removeFromIndex: the read (line 821) and the conditional write (822-825)
RemoveFromIndexRead(p) ==
    /\ h[p].pc = "rm_read"
    /\ LET ids == index[h[p].guildId].ids
       IN h' = [h EXCEPT ![p].idx = ids,
                         ![p].pc = IF h[p].subId \in Range(ids)
                                   THEN "rm_write" ELSE "idle"]
    /\ UNCHANGED <<store, index, nextId, deleted, sweep, arg, ret>>

RemoveFromIndexWrite_clears(p) ==
    /\ h[p].pc = "rm_write"
    /\ index' = [index EXCEPT ![h[p].guildId] =
                    [present |-> TRUE, ids |-> <<>>]]
    /\ h' = [h EXCEPT ![p].pc = "idle", ![p].idx = <<>>]
    /\ UNCHANGED <<store, nextId, deleted, sweep, arg, ret>>

RemoveFromIndexWrite(p) ==
    /\ h[p].pc = "rm_write"
    /\ index' = [index EXCEPT ![h[p].guildId] =
                    [present |-> TRUE,
                     ids |-> SelectSeq(h[p].idx,
                                       LAMBDA id : id # h[p].subId)]]
    /\ h' = [h EXCEPT ![p].pc = "idle", ![p].idx = <<>>]
    /\ UNCHANGED <<store, nextId, deleted, sweep, arg, ret>>

\* handleList (lines 309-331)
List(p, guildId) ==
    /\ h[p].pc = "idle"
    /\ LET r == getSubscriptionsForGuild(store, index, guildId)
       IN /\ index' = [index EXCEPT ![guildId] = r.index]
          /\ h' = [h EXCEPT ![p] =
                    [IdleProc EXCEPT !.op = "list", !.guildId = guildId,
                                     !.listed = idsOf(r.subs)]]
    /\ UNCHANGED <<store, nextId, deleted, sweep, arg, ret>>

NoArg == [items |-> <<>>, lastId |-> NoId, lastDate |-> NoDate]
NoRet == [called |-> FALSE, again |-> FALSE, newItems |-> <<>>,
          latestItem |-> NoItem]

InitDiff ==
    /\ InitStore
    /\ arg \in [items : SeqsUpTo(Items, MaxItems),
                lastId : ItemIds \cup {NoId},
                lastDate : ItemDates \cup {NoDate}]
    /\ ret = NoRet

itemsAfterCall_sortedInPlace(items) == orderItems(items)

\* the caller's array after the call: the sort is applied to a copy
\* ([...items], lines 687-689)
itemsAfterCall(items) == items

DiffCall ==
    /\ ~ret.called
    /\ LET r == diffItems(arg.items, arg.lastId, arg.lastDate)
       IN ret' = [called |-> TRUE, again |-> FALSE, newItems |-> r.newItems,
                  latestItem |-> r.latestItem]
    /\ arg' = [arg EXCEPT !.items = itemsAfterCall(arg.items)]
    /\ UNCHANGED <<store, index, nextId, deleted, h, sweep>>

\* a second call with the same arguments
DiffRecall ==
    /\ ret.called /\ ~ret.again
    /\ LET r == diffItems(arg.items, arg.lastId, arg.lastDate)
       IN ret' = [called |-> TRUE, again |-> TRUE, newItems |-> r.newItems,
                  latestItem |-> r.latestItem]
    /\ arg' = [arg EXCEPT !.items = itemsAfterCall(arg.items)]
    /\ UNCHANGED <<store, index, nextId, deleted, h, sweep>>

NextDiff == DiffCall \/ DiffRecall

SpecDiff == InitDiff /\ [][NextDiff]_vars

(***************************************************************************)
(* The handlers run to completion (one request at a time).                 *)
(***************************************************************************)
addToIndex(idx, subId) ==
    IF subId \in Range(idx.ids) THEN idx
    ELSE [present |-> TRUE, ids |-> Append(idx.ids, subId)]

removeFromIndex(idx, subId) ==
    IF subId \in Range(idx.ids)
    THEN [present |-> TRUE, ids |-> SelectSeq(idx.ids, LAMBDA id : id # subId)]
    ELSE idx

\* handleSubscribe (lines 185-307)
Subscribe(guildId, channelId, url) ==
    /\ nextId <= MaxSubs
    /\ LET r == getSubscriptionsForGuild(store, index, guildId)
       IN \E resp \in Responses(0) :
            LET probe == probeFeed(resp)
            IN IF duplicateOf(r.subs, channelId, url) \/ ~probe.ok
               THEN /\ index' = [index EXCEPT ![guildId] = r.index]
                    /\ UNCHANGED <<store, nextId>>
               ELSE /\ store' = [store EXCEPT
                            ![subscriptionKey(guildId, nextId)] =
                                newSubscription(nextId, guildId, channelId,
                                                url, probe.title)]
                    /\ index' = [index EXCEPT ![guildId] =
                                    addToIndex(r.index, nextId)]
                    /\ nextId' = nextId + 1
    /\ UNCHANGED <<deleted, h, sweep, arg, ret>>

\* handleUnsubscribe (lines 333-388) for an id that is found
Unsubscribe(guildId, subId) ==
    /\ store[subscriptionKey(guildId, subId)] # NoRec
    /\ store' = [store EXCEPT ![subscriptionKey(guildId, subId)] = NoRec]
    /\ deleted' = deleted \cup {subscriptionKey(guildId, subId)}
    /\ index' = [index EXCEPT ![guildId] =
                    removeFromIndex(index[guildId], subId)]
    /\ UNCHANGED <<nextId, h, sweep, arg, ret>>

\* handleList (lines 309-331): its only effect on the store is the repair
ListGuild(guildId) ==
    /\ getSubscriptionsForGuild(store, index, guildId).wrote
    /\ index' = [index EXCEPT ![guildId] =
                    getSubscriptionsForGuild(store, index, guildId).index]
    /\ UNCHANGED <<store, nextId, deleted, h, sweep, arg, ret>>

(***************************************************************************)
(* The scheduled sweep: runFeedChecks and processSubscription.             *)
(***************************************************************************)
keyOf(sub) == subscriptionKey(sub.guildId, sub.id)
watermark(sub) == <<sub.lastItemId, sub.lastItemDate>>

\* the error thrown for a response, or NoError (lines 421-435)
processingError(resp) ==
    IF resp.kind = "http_error" THEN "Feed fetch failed"
    ELSE IF resp.kind = "throw" THEN "error"
    ELSE IF resp.format = "unknown" THEN "Unsupported feed format"
    ELSE NoError

recordError_losesWatermark(sub, message) ==
    [sub EXCEPT !.errorCount = sub.errorCount + 1, !.lastError = message,
                !.lastItemId = NoId, !.lastItemDate = NoDate]

\* the catch block of runFeedChecks (lines 405-413)
recordError(sub, message) ==
    [sub EXCEPT !.errorCount = sub.errorCount + 1, !.lastError = message]

\* lines 436-441
withTitle(sub, normalizedTitle) ==
    IF normalizedTitle # NoTitle /\ normalizedTitle # sub.feedTitle
    THEN [sub EXCEPT !.feedTitle = normalizedTitle]
    ELSE sub

\* lines 459-463
withLatest(sub, latestItem) ==
    IF latestItem # NoItem /\ latestItem.id # sub.lastItemId
    THEN [sub EXCEPT !.lastItemId = latestItem.id,
                     !.lastItemDate = latestItem.date]
    ELSE sub

lastPosted_first(newItems) == newItems[1]

lastPosted(newItems) == newItems[Len(newItems)]

\* lines 478-482
withPosted(sub, newItems) ==
    [sub EXCEPT !.lastItemId = lastPosted(newItems).id,
                !.lastItemDate = lastPosted(newItems).date,
                !.errorCount = 0, !.lastError = NoError]

\* the subscription the for loop of runFeedChecks is at; the subscriptions
\* already handled are not read again and are dropped from `active`
current(sw) == Head(sw.active)

noWatermark(sub) == sub.lastItemId = NoId /\ sub.lastItemDate = NoDate

\* the newest item of a feed, by date where an item is dated (an undated
\* item counts as oldest), by position among equals and in an undated feed
ChronologicallyLast(items) ==
    IF items = <<>> THEN NoItem
    ELSE IF \A i \in 1..Len(items) : items[i].date = NoDate
         THEN items[Len(items)]
         ELSE items[CHOOSE i \in 1..Len(items) :
                        \A j \in 1..Len(items) :
                            \/ DateKey(items[j]) < DateKey(items[i])
                            \/ DateKey(items[j]) = DateKey(items[i]) /\ j <= i]

nextSubscription_stopsOnError(sw, outcome, latest) ==
    [IdleSweep EXCEPT
        !.pc = IF Len(sw.active) > 1 /\ outcome \notin {"error", "send_error"}
               THEN "process" ELSE "idle",
        !.active = IF outcome \in {"error", "send_error"}
                   THEN <<>> ELSE Tail(sw.active),
        !.done = [outcome |-> outcome, first |-> noWatermark(current(sw)),
                  latest |-> latest,
                  sent |-> Len(sw.sent),
                  unsent |-> Len(sw.newItems) - Len(sw.sent)]]

\* the for loop of runFeedChecks moves on to the next subscription
nextSubscription(sw, outcome, latest) ==
    [IdleSweep EXCEPT
        !.pc = IF Len(sw.active) > 1 THEN "process" ELSE "idle",
        !.active = Tail(sw.active),
        !.done = [outcome |-> outcome, first |-> noWatermark(current(sw)),
                  latest |-> latest,
                  sent |-> Len(sw.sent),
                  unsent |-> Len(sw.newItems) - Len(sw.sent)]]

RunFeedChecks_fromIndex(c) ==
    /\ sweep[c].pc = "idle"
    /\ LET active == getAll(store,
                        SelectSeq(AllKeysSeq,
                                  LAMBDA k : k[2] \in Range(index[k[1]].ids)))
       IN /\ Len(active) > 0
          /\ sweep' = [sweep EXCEPT ![c] =
                        [IdleSweep EXCEPT !.pc = "process", !.active = active]]
    /\ UNCHANGED <<store, index, nextId, deleted, h, arg, ret>>

\* lines 391-400: list the keys and load every record
RunFeedChecks(c) ==
    /\ sweep[c].pc = "idle"
    /\ LET active == getAll(store, listAllKeys(store, Guilds))
       IN /\ Len(active) > 0
          /\ sweep' = [sweep EXCEPT ![c] =
                        [IdleSweep EXCEPT !.pc = "process", !.active = active]]
    /\ UNCHANGED <<store, index, nextId, deleted, h, arg, ret>>

\* lines 421-471: what one fetch leads to before the first send: how the run
\* goes on, the record as the code has changed it in memory, the new items,
\* and (when the run ends quietly) the newest item of the feed
processSubscription(subscription, resp) ==
    IF processingError(resp) # NoError
    THEN [outcome |-> "error",
          sub |-> recordError(subscription, processingError(resp)),
          newItems |-> <<>>, latest |-> NoItem]
    ELSE LET titled == withTitle(subscription, normalizeFeedTitle(resp.title))
             d == diffItems(resp.items, subscription.lastItemId,
                            subscription.lastItemDate)
         IN IF Len(resp.items) = 0
            THEN [outcome |-> "empty", sub |-> titled,
                  newItems |-> <<>>, latest |-> NoItem]
            ELSE IF Len(d.newItems) = 0
            THEN [outcome |-> "quiet", sub |-> withLatest(titled, d.latestItem),
                  newItems |-> <<>>,
                  latest |-> ChronologicallyLast(resp.items)]
            ELSE [outcome |-> "send", sub |-> titled,
                  newItems |-> d.newItems, latest |-> NoItem]

\* the writes of lines 405-413 (error), 443-451 (empty feed), 459-471 (no new
\* item), and the entry into the send loop of lines 473-476
ProcessWith(c, r) ==
    /\ sweep[c].pc = "process"
    /\ LET sw == sweep[c]
           subscription == current(sw)
       IN CASE r.outcome = "error" ->
                 /\ subscription.errorCount < MaxErr
                 /\ store' = [store EXCEPT ![keyOf(subscription)] = r.sub]
                 /\ sweep' = [sweep EXCEPT
                                ![c] = nextSubscription(sw, "error", NoItem)]
            [] r.outcome = "empty" ->
                 /\ store' = IF r.sub # subscription
                             THEN [store EXCEPT ![keyOf(subscription)] = r.sub]
                             ELSE store
                 /\ sweep' = [sweep EXCEPT
                                ![c] = nextSubscription(sw, "empty", NoItem)]
            [] r.outcome = "quiet" ->
                 /\ store' = [store EXCEPT ![keyOf(subscription)] = r.sub]
                 /\ sweep' = [sweep EXCEPT
                                ![c] = nextSubscription(sw, "quiet", r.latest)]
            [] r.outcome = "send" ->
                 /\ sweep' = [sweep EXCEPT
                                ![c].pc = "send", ![c].sub = r.sub,
                                ![c].newItems = r.newItems,
                                ![c].done = NoDone]
                 /\ UNCHANGED store
    /\ UNCHANGED <<index, nextId, deleted, h, arg, ret>>

\* the runs one fetch can lead to, over every response the feed can give
Process(c) ==
    /\ sweep[c].pc = "process"
    /\ \E r \in {processSubscription(current(sweep[c]), resp) :
                    resp \in Responses(MaxFeedLen)} : ProcessWith(c, r)

\* lines 473-476: one message is accepted by the sink
SendOk(c) ==
    /\ sweep[c].pc = "send"
    /\ LET sw == sweep[c]
           sent == Append(sw.sent, sw.newItems[Len(sw.sent) + 1])
       IN sweep' = [sweep EXCEPT
                      ![c].sent = sent,
                      ![c].pc = IF Len(sent) = Len(sw.newItems)
                                THEN "persist" ELSE "send"]
    /\ UNCHANGED <<store, index, nextId, deleted, h, arg, ret>>

SendFail_advances(c) ==
    /\ sweep[c].pc = "send"
    /\ sweep[c].sub.errorCount < MaxErr
    /\ store' = [store EXCEPT ![keyOf(sweep[c].sub)] =
                    recordError(
                        IF sweep[c].sent = <<>> THEN sweep[c].sub
                        ELSE [sweep[c].sub EXCEPT
                                !.lastItemId = sweep[c].sent[Len(sweep[c].sent)].id,
                                !.lastItemDate = sweep[c].sent[Len(sweep[c].sent)].date],
                        "Discord post failed")]
    /\ sweep' = [sweep EXCEPT ![c] = nextSubscription(sweep[c], "send_error", NoItem)]
    /\ UNCHANGED <<index, nextId, deleted, h, arg, ret>>

\* sendDiscordMessage throws (lines 513-516); caught at lines 405-413
SendFail(c) ==
    /\ sweep[c].pc = "send"
    /\ sweep[c].sub.errorCount < MaxErr
    /\ store' = [store EXCEPT ![keyOf(sweep[c].sub)] =
                    recordError(sweep[c].sub, "Discord post failed")]
    /\ sweep' = [sweep EXCEPT ![c] = nextSubscription(sweep[c], "send_error", NoItem)]
    /\ UNCHANGED <<index, nextId, deleted, h, arg, ret>>

Persist_unlessChanged(c) ==
    /\ sweep[c].pc = "persist"
    /\ store' = IF watermark(store[keyOf(sweep[c].sub)]) = watermark(sweep[c].sub)
                THEN [store EXCEPT ![keyOf(sweep[c].sub)] =
                        withPosted(sweep[c].sub, sweep[c].newItems)]
                ELSE store
    /\ sweep' = [sweep EXCEPT ![c] = nextSubscription(sweep[c], "posted", NoItem)]
    /\ UNCHANGED <<index, nextId, deleted, h, arg, ret>>

\* lines 478-486
Persist(c) ==
    /\ sweep[c].pc = "persist"
    /\ store' = [store EXCEPT ![keyOf(sweep[c].sub)] =
                    withPosted(sweep[c].sub, sweep[c].newItems)]
    /\ sweep' = [sweep EXCEPT ![c] = nextSubscription(sweep[c], "posted", NoItem)]
    /\ UNCHANGED <<index, nextId, deleted, h, arg, ret>>

\* the runtime ends the invocation (ctx.waitUntil, line 146)
Crash(c) ==
    /\ sweep[c].pc # "idle"
    /\ sweep' = [sweep EXCEPT ![c] =
                    [nextSubscription(sweep[c], "crashed", NoItem) EXCEPT
                        !.pc = "idle", !.active = <<>>]]
    /\ UNCHANGED <<store, index, nextId, deleted, h, arg, ret>>

(***************************************************************************)
(* Spec: one sweep at a time, with requests served between its steps.      *)
(***************************************************************************)
Init == InitStore /\ arg = NoArg /\ ret = NoRet

Followed == {1}

Follow(g, c, u) == nextId \in Followed /\ Subscribe(g, c, u)

Next ==
    \/ \E g \in {1}, c \in Channels, u \in Urls : Follow(g, c, u)
    \/ \E g \in {1}, id \in SubIds : Unsubscribe(g, id)
    \/ \E g \in {1} : ListGuild(g)
    \/ RunFeedChecks(1)
    \/ Process(1)
    \/ SendOk(1)
    \/ SendFail(1)
    \/ Persist(1)
    \/ Crash(1)

Spec == Init /\ [][Next]_vars

(***************************************************************************)
(* SpecMany: the sweep over the subscriptions of several guilds, with a    *)
(* small set of answers from the feeds (none of them carries a title: the  *)
(* title handling of lines 436-441 is exercised under Spec).               *)
(***************************************************************************)
FewFeeds == {<<[id |-> "a", date |-> 1]>>,
             <<[id |-> "a", date |-> 1], [id |-> "b", date |-> 2]>>,
             <<[id |-> "c", date |-> 3], [id |-> "a", date |-> 1],
               [id |-> "b", date |-> 2]>>}
FewResponses ==
    FailedFetches
        \cup [kind : {"feed"}, format : Formats, title : {NoTitle},
              items : FewFeeds]
        \cup {[kind |-> "feed", format |-> "unknown", title |-> NoTitle,
               items |-> <<>>]}

ProcessFew(c) ==
    /\ sweep[c].pc = "process"
    /\ \E r \in {processSubscription(current(sweep[c]), resp) :
                    resp \in FewResponses} : ProcessWith(c, r)

NextMany ==
    \/ \E g \in Guilds, c \in Channels, u \in Urls : Subscribe(g, c, u)
    \/ RunFeedChecks(1)
    \/ ProcessFew(1)
    \/ SendOk(1)
    \/ SendFail(1)
    \/ Persist(1)
    \/ Crash(1)

SpecMany == Init /\ [][NextMany]_vars

(***************************************************************************)
(* SpecWeb: two interaction requests served concurrently; each await of a  *)
(* handler is a step of its own.                                           *)
(***************************************************************************)
InitWeb == Init

NextWeb ==
    \E p \in Procs :
        \/ \E g \in Guilds, c \in Channels, u \in Urls :
                SubscribeBegin(p, g, c, u)
        \/ SubscribeProbe(p)
        \/ AddToIndexRead(p)
        \/ AddToIndexWrite(p)
        \/ \E g \in Guilds, id \in SubIds : UnsubscribeBegin(p, g, id)
        \/ UnsubscribeDelete(p)
        \/ RemoveFromIndexRead(p)
        \/ RemoveFromIndexWrite(p)
        \/ \E g \in Guilds : List(p, g)

SpecWeb == InitWeb /\ [][NextWeb]_vars

(***************************************************************************)
(* SpecOverlap: two sweeps running at the same time over the subscription  *)
(* of one guild (a sweep that overruns the schedule interval).             *)
(***************************************************************************)
NextOverlap ==
    \/ \E c \in Channels, u \in Urls : Follow(1, c, u)
    \/ \E c \in Sweeps :
        \/ RunFeedChecks(c)
        \/ ProcessFew(c)
        \/ SendOk(c)
        \/ SendFail(c)
        \/ Persist(c)
        \/ Crash(c)

SpecOverlap == Init /\ [][NextOverlap]_vars

(***************************************************************************)
(* SpecScan: the sweep while a subscribe request is under way, each await  *)
(* of the request a step of its own: a record is in the store before its   *)
(* guild has an index.                                                     *)
(***************************************************************************)
NextScan ==
    \/ \E g \in Guilds, c \in Channels, u \in Urls : SubscribeBegin(1, g, c, u)
    \/ SubscribeProbe(1)
    \/ AddToIndexRead(1)
    \/ AddToIndexWrite(1)
    \/ RunFeedChecks(1)
    \/ ProcessFew(1)
    \/ SendOk(1)
    \/ SendFail(1)
    \/ Persist(1)
    \/ Crash(1)

SpecScan == Init /\ [][NextScan]_vars

(***************************************************************************)
(* SpecItem: normalizeRssItem and normalizeAtomEntry applied to one parsed *)
(* element.  A parsed value is undefined, a string, a number, an object    *)
(* (an element with attributes: its text is under "#text") or, for links,  *)
(* an array of objects.  NoId stands for undefined and for a missing key.  *)
(* `ident` is the guid of an item and the id of an entry.  The element is  *)
(* an object: a falsy one is dropped at lines 606 and 624.                 *)
(***************************************************************************)
MaxLinks == 2
Undefined == [t |-> "undefined"]
StringValue(v) == [t |-> "string", v |-> v]
TextValues ==
    {Undefined, StringValue(""), StringValue("a"), [t |-> "number", v |-> 0]}
        \cup [t : {"object"}, hash : {NoId, "", "a"}, text : {NoId, "b"}]
TitleValues == {Undefined, StringValue(""), StringValue("t")}
DateValues == {Undefined, StringValue("1 Jan"), StringValue("soon")}
LinkObjects ==
    [t : {"object"}, rel : {"alternate", "self"}, href : {NoId, "", "l"},
     url : {NoId}, atHref : {NoId}, hash : {NoId, "m"}]
LinkValues ==
    {Undefined, StringValue(""), StringValue("l")}
        \cup LinkObjects
        \cup [t : {"array"}, of : SeqsUpTo(LinkObjects, MaxLinks)]

\* String(value) for the numbers of the model
String(n) == IF n = 0 THEN "0" ELSE "1"

\* a ?? b on results, where NoId is undefined
Coalesce(a, b) == IF a # NoId THEN a ELSE b

\* a ?? b on parsed values
CoalesceRaw(a, b) == IF a # Undefined THEN a ELSE b

pickText(value) ==
    CASE value.t = "undefined" -> NoId
      [] value.t = "string" -> value.v
      [] value.t = "number" -> String(value.v)
      [] value.t = "object" ->
            IF value.hash # NoId THEN value.hash
            ELSE IF value.text # NoId THEN value.text
            ELSE NoId
      [] OTHER -> NoId

pickLinkObject(value) ==
    Coalesce(value.href,
             Coalesce(value.url, Coalesce(value.atHref, value.hash)))

pickLink(value) ==
    CASE value.t = "undefined" -> NoId
      [] value.t = "string" -> value.v
      [] value.t = "array" ->
            IF \E i \in 1..Len(value.of) : value.of[i].rel = "alternate"
            THEN pickLinkObject(
                    value.of[CHOOSE i \in 1..Len(value.of) :
                        /\ value.of[i].rel = "alternate"
                        /\ \A j \in 1..(i - 1) :
                                value.of[j].rel # "alternate"])
            ELSE IF value.of = <<>> THEN NoId
            ELSE pickLinkObject(value.of[1])
      [] value.t = "object" -> pickLinkObject(value)
      [] OTHER -> NoId

\* Date.parse for the strings of the model: "1 Jan" is a date, "soon" is not
parseDate(value) ==
    LET text == pickText(value)
    IN IF text = NoId \/ text = "" THEN NoDate
       ELSE IF text = "1 Jan" THEN 1 ELSE NoDate

normalizeRssItem(item) ==
    LET title == Coalesce(pickText(item.title), "(no title)")
        link == pickLink(item.link)
    IN [id |-> Coalesce(pickText(item.ident), Coalesce(link, title)),
        title |-> title,
        link |-> link,
        date |-> parseDate(CoalesceRaw(item.pubDate,
                    CoalesceRaw(item.date,
                        CoalesceRaw(item.published, item.updated))))]

normalizeAtomEntry(entry) ==
    LET title == Coalesce(pickText(entry.title), "(no title)")
        link == pickLink(entry.link)
    IN [id |-> Coalesce(pickText(entry.ident), Coalesce(link, title)),
        title |-> title,
        link |-> link,
        date |-> parseDate(CoalesceRaw(entry.updated, entry.published))]

NoNormalized == [called |-> FALSE, as |-> "none",
                 item |-> [id |-> NoId, title |-> NoId, link |-> NoId,
                           date |-> NoDate]]

InitItem ==
    /\ InitStore
    /\ arg \in [ident : TextValues, link : LinkValues, title : TitleValues,
                 pubDate : DateValues, date : {Undefined},
                 published : {Undefined}, updated : DateValues]
    /\ ret = NoNormalized

NormalizeRss ==
    /\ ~ret.called
    /\ ret' = [called |-> TRUE, as |-> "rss", item |-> normalizeRssItem(arg)]
    /\ UNCHANGED <<store, index, nextId, deleted, h, sweep, arg>>

NormalizeAtom ==
    /\ ~ret.called
    /\ ret' = [called |-> TRUE, as |-> "atom",
               item |-> normalizeAtomEntry(arg)]
    /\ UNCHANGED <<store, index, nextId, deleted, h, sweep, arg>>

NextItem == NormalizeRss \/ NormalizeAtom

SpecItem == InitItem /\ [][NextItem]_vars

(***************************************************************************)
(* SpecIndex: addToIndex and removeFromIndex called one after the other on *)
(* any index the store can hold.  `arg` is the call under way or made last *)
(* (with the index it found), `ret` the call before it.                    *)
(***************************************************************************)
NoDupSeqs(S) ==
    {q \in SeqsUpTo(S, Cardinality(S)) :
        \A i, j \in 1..Len(q) : i # j => q[i] # q[j]}
Indexes == {NoIndex} \cup [present : {TRUE}, ids : NoDupSeqs(SubIds)]
NoCall == [op |-> "none", guildId |-> 1, subId |-> 0, before |-> NoIndex]

InitIndex ==
    /\ store = [k \in Keys |-> NoRec]
    /\ index \in [Guilds -> Indexes]
    /\ nextId = 1
    /\ deleted = {}
    /\ h = [p \in Procs |-> IdleProc]
    /\ sweep = [c \in Sweeps |-> IdleSweep]
    /\ arg = NoCall
    /\ ret = NoCall

AddToIndexCall(p, guildId, subId) ==
    /\ h[p].pc = "idle"
    /\ h' = [h EXCEPT ![p] = [IdleProc EXCEPT !.pc = "add_read", !.op = "add",
                                              !.guildId = guildId,
                                              !.subId = subId]]
    /\ ret' = arg
    /\ arg' = [op |-> "add", guildId |-> guildId, subId |-> subId,
               before |-> index[guildId]]
    /\ UNCHANGED <<store, index, nextId, deleted, sweep>>

RemoveFromIndexCall(p, guildId, subId) ==
    /\ h[p].pc = "idle"
    /\ h' = [h EXCEPT ![p] = [IdleProc EXCEPT !.pc = "rm_read",
                                              !.op = "remove",
                                              !.guildId = guildId,
                                              !.subId = subId]]
    /\ ret' = arg
    /\ arg' = [op |-> "remove", guildId |-> guildId, subId |-> subId,
               before |-> index[guildId]]
    /\ UNCHANGED <<store, index, nextId, deleted, sweep>>

NextIndex ==
    \/ \E g \in Guilds, id \in SubIds : AddToIndexCall(1, g, id)
    \/ \E g \in Guilds, id \in SubIds : RemoveFromIndexCall(1, g, id)
    \/ AddToIndexRead(1)
    \/ AddToIndexWrite(1)
    \/ RemoveFromIndexRead(1)
    \/ RemoveFromIndexWrite(1)

SpecIndex == InitIndex /\ [][NextIndex]_vars

(***************************************************************************)
(* C3: no two subscription records in the store share the same             *)
(* (guildId, channelId, url).                                              *)
(***************************************************************************)
C3_UniqueTarget ==
    \A j, k \in Keys :
        (store[j] # NoRec /\ store[k] # NoRec /\ j # k)
            => ~(/\ store[j].guildId = store[k].guildId
                 /\ store[j].channelId = store[k].channelId
                 /\ store[j].url = store[k].url)

(***************************************************************************)
(* Properties of the sweep.  A step of the sweep that ends the handling of *)
(* a subscription is recognised by the outcome it records.                 *)
(***************************************************************************)

Ends(c, outcomes) ==
    /\ sweep'[c] # sweep[c]
    /\ sweep[c].pc \in {"process", "send", "persist"}
    /\ sweep'[c].done.outcome \in outcomes

(***************************************************************************)
(* C2: a non-empty feed processed for a subscription without a watermark   *)
(* yields zero new items, nothing is sent, and the stored watermark        *)
(* becomes the id and date of the newest item of the feed.                 *)
(***************************************************************************)
C2_FirstCheckSilent ==
    [][(/\ sweep[1].pc = "process"
        /\ sweep'[1] # sweep[1]
        /\ noWatermark(current(sweep[1]))
        /\ sweep'[1].done.outcome \notin {"error", "empty", "crashed"})
          => LET k == keyOf(current(sweep[1]))
             IN /\ sweep'[1].pc # "send"
                /\ sweep'[1].done.outcome = "quiet"
                /\ sweep'[1].done.sent = 0
                /\ sweep'[1].done.latest # NoItem
                /\ store'[k] # NoRec
                /\ watermark(store'[k]) = <<sweep'[1].done.latest.id,
                                            sweep'[1].done.latest.date>>]_vars

C2_FirstCheckDone ==
    /\ sweep[1].done.outcome = "quiet"
    /\ sweep[1].done.first
    /\ \E k \in Keys :
        /\ store[k] # NoRec
        /\ sweep[1].done.latest # NoItem
        /\ store[k].lastItemId = sweep[1].done.latest.id

(***************************************************************************)
(* C4: a persisted lastItemDate is never smaller than the lastItemDate     *)
(* persisted before it.                                                    *)
(***************************************************************************)
C4_WatermarkMovesForward ==
    [][\A k \in Keys :
        (/\ store[k] # NoRec /\ store'[k] # NoRec
         /\ store[k].lastItemDate # NoDate /\ store'[k].lastItemDate # NoDate)
            => store'[k].lastItemDate >= store[k].lastItemDate]_vars

(***************************************************************************)
(* C5: once unsubscribe has deleted a record, no record is stored under    *)
(* that key again.                                                         *)
(***************************************************************************)
C5_DeletedStaysDeleted == \A k \in deleted : store[k] = NoRec

(***************************************************************************)
(* C7: when the processing of a subscription completes successfully, the   *)
(* stored record has errorCount = 0 and no lastError.                      *)
(***************************************************************************)
C7_SuccessClearsError ==
    [][Ends(1, {"empty", "quiet", "posted"})
          => LET k == keyOf(current(sweep[1]))
             IN store'[k] # NoRec
                  => /\ store'[k].errorCount = 0
                     /\ store'[k].lastError = NoError]_vars

(***************************************************************************)
(* C8: when processing a subscription fails, its errorCount grows by one,  *)
(* lastError is set, its watermark is unchanged, no other record changes   *)
(* and the sweep moves on to the next subscription it loaded.              *)
(***************************************************************************)
C8_FailureIsContained ==
    [][Ends(1, {"error", "send_error"})
          => LET k == keyOf(current(sweep[1]))
             IN /\ store[k] # NoRec /\ store'[k] # NoRec
                /\ store'[k].errorCount = store[k].errorCount + 1
                /\ store'[k].lastError # NoError
                /\ watermark(store'[k]) = watermark(store[k])
                /\ \A j \in Keys \ {k} : store'[j] = store[j]
                /\ sweep'[1].active = Tail(sweep[1].active)
                /\ sweep'[1].active # <<>> => sweep'[1].pc = "process"]_vars

C8_FailedAndMovedOn ==
    /\ sweep[1].done.outcome \in {"error", "send_error"}
    /\ sweep[1].pc = "process"
    /\ \E k \in Keys : /\ store[k] # NoRec
                       /\ store[k].errorCount = 1
                       /\ k # keyOf(current(sweep[1]))

(***************************************************************************)
(* C9: when the sweep stops while sending the new items of a subscription  *)
(* (sink failure or crash), every item not yet delivered is reported as    *)
(* new again when the same feed content is processed next.                 *)
(***************************************************************************)
C9_UnsentStillNew ==
    [][(/\ Ends(1, {"send_error", "crashed"})
        /\ sweep[1].pc \in {"send", "persist"})
          => LET sw == sweep[1]
                 k == keyOf(sw.sub)
             IN store'[k] # NoRec
                  => \A feed \in FewFeeds :
                        diffItems(feed, sw.sub.lastItemId,
                                  sw.sub.lastItemDate).newItems = sw.newItems
                          => LET again == diffItems(feed, store'[k].lastItemId,
                                              store'[k].lastItemDate).newItems
                             IN \A i \in (Len(sw.sent) + 1)..Len(sw.newItems) :
                                  \E j \in 1..Len(again) :
                                      again[j] = sw.newItems[i]]_vars

C9_StoppedMidway ==
    /\ sweep[1].done.outcome \in {"send_error", "crashed"}
    /\ sweep[1].done.sent >= 1
    /\ sweep[1].done.unsent >= 1

(***************************************************************************)
(* C10: the new items are sent one at a time in the order of newItems, the *)
(* watermark is written only after all of them were sent, and it is the id *)
(* and date of the last item sent.                                         *)
(***************************************************************************)
C10_WatermarkIsLastSent ==
    [][(sweep'[1] # sweep[1] /\ sweep[1].pc \in {"send", "persist"})
          => LET sw == sweep[1]
                 k == keyOf(sw.sub)
             IN /\ sweep'[1].pc \in {"send", "persist"}
                    => /\ store' = store
                       /\ sweep'[1].sent
                            = SubSeq(sw.newItems, 1, Len(sw.sent) + 1)
                /\ (store'[k] # NoRec
                      /\ watermark(store'[k]) # watermark(sw.sub))
                    => /\ sw.sent = sw.newItems
                       /\ sweep'[1].done.outcome = "posted"
                /\ sweep'[1].done.outcome = "posted"
                    => /\ sw.sent = sw.newItems
                       /\ store'[k] # NoRec
                       /\ watermark(store'[k])
                            = <<sw.sent[Len(sw.sent)].id,
                                sw.sent[Len(sw.sent)].date>>]_vars

C10_PostedSeveral ==
    /\ sweep[1].done.outcome = "posted"
    /\ sweep[1].done.sent >= 2

(***************************************************************************)
(* C6: with N records of a guild in the store and an index that is absent, *)
(* empty or not listing exactly those N ids, a list call returns all N     *)
(* subscriptions and leaves an index listing exactly those N ids.          *)
(***************************************************************************)
recordIds(guildId) ==
    {id \in SubIds : store[subscriptionKey(guildId, id)] # NoRec}

C6_ListRepairsIndex ==
    [][\A p \in Procs, g \in Guilds :
        (/\ List(p, g)
         /\ \/ ~index[g].present
            \/ index[g].ids = <<>>
            \/ Range(index[g].ids) # recordIds(g))
          => /\ Range(h'[p].listed) = recordIds(g)
             /\ Range(index'[g].ids) = recordIds(g)
             /\ Len(index'[g].ids) = Cardinality(recordIds(g))]_vars

(***************************************************************************)
(* C1: whenever lastItemId equals the id of some item, diffItems returns   *)
(* exactly the items strictly after that item in the ordered list, in      *)
(* order, and never the watermark item or an item before it.               *)
(***************************************************************************)
PosOf(sorted, id) == CHOOSE i \in 1..Len(sorted) :
                        /\ sorted[i].id = id
                        /\ \A j \in 1..(i - 1) : sorted[j].id # id

C1_StrictlyAfterWatermark ==
    (ret.called /\ \E i \in 1..Len(arg.items) : arg.items[i].id = arg.lastId)
        => LET sorted == orderItems(arg.items)
               p == PosOf(sorted, arg.lastId)
           IN ret.newItems = SubSeq(sorted, p + 1, Len(sorted))

(***************************************************************************)
(* C11: when a send fails, nothing more of that subscription is sent in    *)
(* the sweep, the failure is recorded on the subscription (errorCount plus *)
(* one, lastError set), and the stored watermark stays where it was, also  *)
(* for the items that were sent before the failure.                        *)
(***************************************************************************)
C11_SinkFailureStops ==
    [][Ends(1, {"send_error"})
          => LET sw == sweep[1]
                 k == keyOf(sw.sub)
             IN /\ store'[k] # NoRec
                /\ store'[k].errorCount = sw.sub.errorCount + 1
                /\ store'[k].lastError # NoError
                /\ watermark(store'[k]) = watermark(current(sw))
                /\ watermark(store'[k]) = watermark(store[k])
                /\ sweep'[1].pc # "send"
                /\ sweep'[1].newItems = <<>> /\ sweep'[1].sent = <<>>
                /\ sweep'[1].done.sent = Len(sw.sent)
                /\ \A i \in 1..Len(sweep'[1].active) :
                        keyOf(sweep'[1].active[i]) # k]_vars

C11_FailedAfterSending ==
    /\ sweep[1].done.outcome = "send_error"
    /\ sweep[1].done.sent >= 1
    /\ \E k \in Keys : /\ store[k] # NoRec
                       /\ store[k].lastError = "Discord post failed"
                       /\ store[k].lastItemId # NoId

(***************************************************************************)
(* C12 as stated: for any index content and any id, addToIndex(id) and     *)
(* then removeFromIndex(id) for the same guild leave the index listing     *)
(* what it listed before the two calls.                                    *)
(***************************************************************************)
AddThenRemoveDone ==
    /\ h[1].pc = "idle"
    /\ arg.op = "remove" /\ ret.op = "add"
    /\ arg.guildId = ret.guildId /\ arg.subId = ret.subId

C12_AddThenRemoveRestores ==
    AddThenRemoveDone => index[arg.guildId].ids = ret.before.ids

(***************************************************************************)
(* C12 amended: for any index content and any id that the index does not   *)
(* list yet, addToIndex(id) and then removeFromIndex(id) for the same      *)
(* guild leave the index listing the same ids in the same order as before  *)
(* (an absent index is left as an empty one).                              *)
(***************************************************************************)
C12_FreshAddThenRemoveRestores ==
    (AddThenRemoveDone /\ ret.subId \notin Range(ret.before.ids))
        => /\ index[arg.guildId].ids = ret.before.ids
           /\ index[arg.guildId].present

C12_RoundTripDone ==
    /\ AddThenRemoveDone
    /\ ret.subId \notin Range(ret.before.ids)
    /\ ret.before.ids # <<>>
    /\ arg.before.ids = Append(ret.before.ids, ret.subId)

(***************************************************************************)
(* C16: addToIndex with an id the index lists, and removeFromIndex with an *)
(* id it does not list, return after the read without a write and leave    *)
(* the index as it is; a call repeated leaves the index as the first call  *)
(* left it.                                                                *)
(***************************************************************************)
C16_NoOpCallsDoNotWrite ==
    [][/\ (h[1].pc = "add_read" /\ h'[1] # h[1]
            /\ h[1].subId \in Range(index[h[1].guildId].ids))
          => h'[1].pc = "idle" /\ index' = index
       /\ (h[1].pc = "rm_read" /\ h'[1] # h[1]
            /\ h[1].subId \notin Range(index[h[1].guildId].ids))
          => h'[1].pc = "idle" /\ index' = index
       /\ (h[1].pc # "idle" /\ h'[1].pc = "idle"
            /\ arg.op = ret.op
            /\ arg.guildId = ret.guildId /\ arg.subId = ret.subId)
          => index' = index /\ index'[arg.guildId] = arg.before]_vars

C16_CalledTwice ==
    /\ h[1].pc = "idle"
    /\ arg.op = ret.op /\ arg.op \in {"add", "remove"}
    /\ arg.guildId = ret.guildId /\ arg.subId = ret.subId
    /\ ret.before # arg.before

(***************************************************************************)
(* C13 as stated: when lastItemId is the id of no item (or is absent) and  *)
(* lastItemDate is set, diffItems returns exactly the items dated strictly *)
(* later than lastItemDate, in ascending date order, and nothing else.     *)
(***************************************************************************)
IdFound == \E i \in 1..Len(arg.items) : arg.items[i].id = arg.lastId

DatedLater ==
    SelectSeq(orderItems(arg.items),
              LAMBDA it : it.date # NoDate /\ it.date > arg.lastDate)

Ascending(items) ==
    \A i, j \in 1..Len(items) : i < j => items[i].date <= items[j].date

WatermarkExists == arg.lastId # NoId \/ arg.lastDate # NoDate

IdStrategyYields ==
    /\ arg.lastId # NoId
    /\ IdFound
    /\ PosOf(orderItems(arg.items), arg.lastId) < Len(arg.items)

DateStrategyYields == arg.lastDate # NoDate /\ DatedLater # <<>>

C14_LastResortIsLatestAlone ==
    (/\ ret.called /\ arg.items # <<>>
     /\ WatermarkExists /\ ~IdStrategyYields /\ ~DateStrategyYields)
        => ret.newItems = IF ChronologicallyLast(arg.items).id # arg.lastId
                          THEN <<ChronologicallyLast(arg.items)>>
                          ELSE <<>>

(***************************************************************************)
(* C15: a subscribe request whose probe fails (HTTP error, timeout or      *)
(* other fetch failure, unparsable or unrecognised content) writes no      *)
(* record, does not go on to addToIndex and leaves store and index as they *)
(* are; a probe that succeeds writes nothing but the new record; and a     *)
(* recognised feed without items is accepted.                              *)
(***************************************************************************)
ProbeFails(resp) == resp.kind # "feed" \/ resp.format = "unknown"

C15_FailedProbeWritesNothing ==
    [][\A p \in Procs :
        (h[p].pc = "probe" /\ h'[p] # h[p])
          => \A resp \in Responses(1) :
               /\ SubscribeProbeWith(p, probeFeed(resp))
                    => IF ProbeFails(resp)
                       THEN /\ store' = store /\ index' = index
                            /\ nextId' = nextId
                            /\ h'[p].pc = "idle"
                       ELSE LET k == subscriptionKey(h[p].guildId, nextId)
                            IN /\ store'[k] # NoRec
                               /\ \A j \in Keys \ {k} : store'[j] = store[j]
                               /\ index' = index
                               /\ h'[p].pc = "add_read"
               /\ (~ProbeFails(resp) /\ resp.items = <<>>)
                    => probeFeed(resp).ok]_vars

C15_ProbeFailed ==
    /\ nextId = 1
    /\ \A k \in Keys : store[k] = NoRec
    /\ \E p \in Procs : h[p].op = "subscribe" /\ h[p].pc = "idle"

C18_ListFindsEveryRecord ==
    [][\A p \in Procs, g \in Guilds :
        ((\A q \in Procs : h[q].pc = "idle") /\ List(p, g))
          => /\ Range(h'[p].listed) = recordIds(g)
             /\ Range(index'[g].ids) = recordIds(g)]_vars

C20_QuietWritesOnlyChanges ==
    [][Ends(1, {"quiet"})
          => LET loaded == current(sweep[1])
                 k == keyOf(loaded)
             IN /\ sweep'[1].done.latest.id # loaded.lastItemId
                     => /\ store'[k] # NoRec
                        /\ store'[k].lastItemId = sweep'[1].done.latest.id
                /\ store'[k] = loaded => store' = store]_vars

(***************************************************************************)
(* C21: a list call that finds a non-empty index returns the indexed ids   *)
(* whose record is in the store, in index order, and none whose record is  *)
(* missing; if an id was dropped the index is rewritten to exactly the ids *)
(* returned, and if none was dropped the index is left unwritten.          *)
(***************************************************************************)
Indexed(g) == index[g].present /\ index[g].ids # <<>>

Surviving(g) ==
    SelectSeq(index[g].ids,
              LAMBDA id : store[subscriptionKey(g, id)] # NoRec)

Stored == {k \in Keys : store[k] # NoRec}

C22_SweepCoversStore ==
    [][sweep'[1] # sweep[1]
        => LET sw == sweep[1]
               after == sweep'[1]
           IN /\ sw.pc = "idle"
                    => /\ Len(after.active) = Cardinality(Stored)
                       /\ \A k \in Stored :
                            \E i \in 1..Len(after.active) :
                                after.active[i] = store[k]
              /\ (sw.pc # "idle" /\ after.done.outcome = "none")
                    => after.active = sw.active /\ after.pc # "idle"
              /\ (sw.pc # "idle"
                    /\ after.done.outcome \notin {"none", "crashed"})
                    => /\ after.active = Tail(sw.active)
                       /\ after.pc = IF Tail(sw.active) = <<>>
                                     THEN "idle" ELSE "process"]_vars

C22_UnindexedRecordSwept ==
    /\ sweep[1].pc = "process"
    /\ sweep[1].done.outcome \notin {"none", "crashed"}
    /\ ~index[current(sweep[1]).guildId].present

(***************************************************************************)
(* C23: a step of a request made for guild A changes no record and no      *)
(* index of another guild; the subscriptions a guild's list call gets are  *)
(* records of that guild; and an unsubscribe in guild A with an id that    *)
(* has a record only in another guild reports not-found and writes         *)
(* nothing.                                                                *)
(***************************************************************************)
OnlyElsewhere(g, id) ==
    /\ store[subscriptionKey(g, id)] = NoRec
    /\ \E b \in Guilds \ {g} : store[subscriptionKey(b, id)] # NoRec

C23_TenantIsolation ==
    [][/\ (store' # store \/ index' # index)
          => \A b \in Guilds :
               (\/ index'[b] # index[b]
                \/ \E id \in SubIds : store'[<<b, id>>] # store[<<b, id>>])
                 => \E p \in Procs :
                       /\ h'[p].guildId = b
                       /\ \A q \in Procs \ {p} : h'[q] = h[q]
       /\ \A p \in Procs :
            (/\ h[p].pc = "idle" /\ h'[p].op = "list"
             /\ (h'[p] # h[p] \/ index' # index)
             /\ \A q \in Procs \ {p} : h'[q] = h[q]
             /\ List(p, h'[p].guildId))
              => \A subs \in {getSubscriptionsForGuild(
                                  store, index, h'[p].guildId).subs} :
                    /\ h'[p].listed = idsOf(subs)
                    /\ \A i \in 1..Len(subs) :
                          /\ subs[i].guildId = h'[p].guildId
                          /\ subs[i] = store[<<h'[p].guildId, subs[i].id>>]
       /\ \A p \in Procs :
            (/\ h[p].pc = "idle" /\ h'[p].op = "unsubscribe"
             /\ h'[p] # h[p]
             /\ OnlyElsewhere(h'[p].guildId, h'[p].subId)
             /\ UnsubscribeBegin(p, h'[p].guildId, h'[p].subId))
              => /\ h'[p].pc = "idle"
                 /\ store' = store /\ index' = index]_vars

C23_ForeignIdNotFound ==
    \E p \in Procs :
        /\ h[p].op = "unsubscribe" /\ h[p].pc = "idle"
        /\ OnlyElsewhere(h[p].guildId, h[p].subId)
        /\ \A g \in Guilds : subscriptionKey(g, h[p].subId) \notin deleted

(***************************************************************************)
(* C24: the id of a normalized item or entry is the first non-empty value  *)
(* among its guid (entry id), its resolved link and its title: an empty    *)
(* guid falls through to the link, an empty or absent link to the title.   *)
(***************************************************************************)
FirstNonEmpty(values) ==
    IF \E i \in 1..Len(values) : TruthyId(values[i])
    THEN values[CHOOSE i \in 1..Len(values) :
                    /\ TruthyId(values[i])
                    /\ \A j \in 1..(i - 1) : ~TruthyId(values[j])]
    ELSE NoId

C24_IdIsFirstNonEmpty ==
    ret.called
      => LET candidates == <<pickText(arg.ident), pickLink(arg.link),
                             ret.item.title>>
         IN (\E i \in 1..3 : TruthyId(candidates[i]))
              => ret.item.id = FirstNonEmpty(candidates)

====
